---- MODULE Spec2Model ----
(***************************************************************************)
(* Photo classification worker (beautiful-photos-worker-cron).             *)
(*                                                                         *)
(* The store (D1) is shared by every invocation of classifyPhotos; each    *)
(* awaited store statement and each awaited external call is one atomic    *)
(* step, and the local computation that follows an await belongs to the    *)
(* step of that await.  A store statement may fail (throw); a statement    *)
(* with its triggers is atomic.                                            *)
(*                                                                         *)
(* Representation: a string of space-joined tags is the sequence of its    *)
(* tokens ('' is << >>); tag_id is not represented, a tags row is keyed by *)
(* tag_name, which the schema declares UNIQUE; time is counted in minutes. *)
(***************************************************************************)
EXTENDS Integers, Sequences, FiniteSets, TLC

\* ---------------------------------------------------------------- bounds
NumPhotos == 2
\* invocations of classifyPhotos, which may overlap in any way
NumRuns == 2
MaxLimit == 2
\* the clock advances in steps of TickMinutes up to MaxTime
MaxTime == 6
TickMinutes == 6
\* store statements that fail, and log inserts that fail, in one behaviour
MaxStoreFaults == 1
MaxLogFaults == 1
\* longest people_tags list given to parseClassificationResponse on its own
MaxPeopleLen == 3

\* ------------------------------------------------------ program constants
MAX_RETRIES == 3
\* "Max Retries: 3 attempts", "After 3 attempts, mark as permanently failed"
MAX_ATTEMPTS == 3
FIVE_MINUTES == 5
MIN_CONTENT_Lower == 2 - 1
MIN_CONTENT == 2
MIN_MOOD == 1
MIN_COLOR == 2
MIN_QUALITY == 2
FREE_MODEL == "free"
PAID_MODEL == "paid"

Photos == 1 .. NumPhotos
Runs == 1 .. NumRuns
\* a NULL text column; a nullable number column is << >> or <<n>>
NULL == "NULL"
Null == << >>
Some(x) == <<x>>
\* no row for the photo in photo_classifications / no row for the name in tags
NoRow == [classification_status |-> "absent"]
NoTag == [tag_category |-> "none", usage_count |-> 0]

\* the members of a sequence
Elems(s) == {s[i] : i \in 1 .. Len(s)}

\* no request to /test-classify: classifyPhotos is invoked by the cron
NoRequest == [photo_id |-> 0, force |-> FALSE]

NoResult == [none |-> TRUE]

\* photos.created_ts: the photos are created in the order of their ids
created_ts(p) == p

Categories == <<"content", "people", "mood", "color", "quality">>

TagNames == {"nature", "Nature", "sky", "no_people", "people", "peaceful", "blue", "white",
             "sharp", "professional"}

\* ------------------------------------------------------------- responses
\* What the external service can answer.  kind "http_error": a non-2xx
\* status; "no_choices": a 2xx body without choices; "content": the text of
\* choices[0].message.content, either unparseable (json = FALSE) or a JSON
\* object whose fields are given (a tag field is an array of strings, or is
\* absent or of another type).
\* confidence is counted in tenths (9 is 0.9); the field is a number, a value
\* of another type, or absent.
Number(n) == [type |-> "number", value |-> n]

List(s) == [array |-> TRUE, items |-> s]
NotAList == [array |-> FALSE, items |-> << >>]

Reply(c, p, m, col, q, conf) ==
    [kind |-> "content", json |-> TRUE, content_tags |-> List(c), people_tags |-> List(p),
     mood_tags |-> List(m), color_tags |-> List(col), quality_tags |-> List(q),
     confidence |-> Number(conf)]

RespHttpError == [kind |-> "http_error"]
RespNoChoices == [kind |-> "no_choices"]
RespGarbage == [kind |-> "content", json |-> FALSE]
\* the example of the specification: eight distinct tags, confidence 0.9
RespA == Reply(<<"nature", "sky">>, <<"no_people">>, <<"peaceful">>,
               <<"blue", "white">>, <<"sharp", "professional">>, 9)
\* a valid reply that names "blue" in two categories and has no "nature"
RespB == Reply(<<"blue", "sky">>, <<"no_people">>, <<"peaceful">>,
               <<"blue", "white">>, <<"sharp", "professional">>, 7)
\* a valid reply that spells "nature" with a capital letter
RespCapital == Reply(<<"Nature", "sky">>, <<"no_people">>, <<"peaceful">>,
                     <<"blue", "white">>, <<"sharp", "professional">>, 9)
\* "people" without "close" / "distant": a business-rule violation
RespNoProximity == Reply(<<"nature", "sky">>, <<"people">>, <<"peaceful">>,
                         <<"blue", "white">>, <<"sharp", "professional">>, 9)

CronResponses == {RespHttpError, RespNoChoices, RespGarbage, RespA, RespB, RespNoProximity}

\* The contents given to parseClassificationResponse on its own: every
\* combination of a people list over PeopleTags up to MaxPeopleLen, the other
\* lists up to their minimum, each list possibly absent, and a confidence that
\* is a number (in tenths, also out of range), of another type, or absent.
PeopleTags == {"people", "no_people", "close", "distant"}

SeqsUpTo(S, n) == UNION {[1 .. k -> S] : k \in 0 .. n}

Prefixes(s) == {SubSeq(s, 1, k) : k \in 0 .. Len(s)}

Lists(S) == {List(x) : x \in S} \cup {NotAList}

ConfidenceValues ==
    {Number(n) : n \in {0 - 1, 0, 5, 10, 11}}
    \cup {[type |-> "string", value |-> 5], [type |-> "undefined", value |-> 0]}

Contents ==
    {[kind |-> "content", json |-> FALSE]}
    \cup [kind : {"content"}, json : {TRUE},
          content_tags : Lists(Prefixes(<<"nature", "sky">>)),
          people_tags : Lists(SeqsUpTo(PeopleTags, MaxPeopleLen)),
          mood_tags : Lists(Prefixes(<<"peaceful">>)),
          color_tags : Lists(Prefixes(<<"blue", "white">>)),
          quality_tags : Lists(Prefixes(<<"sharp", "professional">>)),
          confidence : ConfidenceValues]

IsNumber(x) == x.type = "number"

Includes_Always(s, x) == TRUE
Includes(s, x) == \E i \in 1 .. Len(s) : s[i] = x

IsArray(x) == x.array

Failure(kind, msg) == [ok |-> FALSE, kind |-> kind, error |-> msg]

parseClassificationResponse(content) ==
    IF ~content.json THEN Failure("transport", "Failed to parse classification JSON")
    ELSE IF ~IsArray(content.content_tags) THEN Failure("validation", "Missing or invalid content_tags")
    ELSE IF ~IsArray(content.people_tags) THEN Failure("validation", "Missing or invalid people_tags")
    ELSE IF ~IsArray(content.mood_tags) THEN Failure("validation", "Missing or invalid mood_tags")
    ELSE IF ~IsArray(content.color_tags) THEN Failure("validation", "Missing or invalid color_tags")
    ELSE IF ~IsArray(content.quality_tags) THEN Failure("validation", "Missing or invalid quality_tags")
    ELSE LET confidence == IF IsNumber(content.confidence) THEN content.confidence.value ELSE 0
             hasPeople == Includes(content.people_tags.items, "people")
                          \/ Includes(content.people_tags.items, "no_people")
             hasProximity == Includes(content.people_tags.items, "close")
                             \/ Includes(content.people_tags.items, "distant")
         IN IF confidence < 0 \/ confidence > 10
              THEN Failure("validation", "Invalid confidence score")
            ELSE IF ~hasPeople
              THEN Failure("validation", "people_tags must include people or no_people")
            ELSE IF Includes(content.people_tags.items, "people") /\ ~hasProximity
              THEN Failure("validation", "people_tags with people must include close or distant")
            ELSE IF Len(content.content_tags.items) < MIN_CONTENT
              THEN Failure("validation", "content_tags must have at least 2 tags")
            ELSE IF Len(content.mood_tags.items) < MIN_MOOD
              THEN Failure("validation", "mood_tags must have at least 1 tag")
            ELSE IF Len(content.color_tags.items) < MIN_COLOR
              THEN Failure("validation", "color_tags must have at least 2 tags")
            ELSE IF Len(content.quality_tags.items) < MIN_QUALITY
              THEN Failure("validation", "quality_tags must have at least 2 tags")
            ELSE [ok |-> TRUE,
                  result |-> [content_tags |-> content.content_tags.items,
                              people_tags |-> content.people_tags.items,
                              mood_tags |-> content.mood_tags.items,
                              color_tags |-> content.color_tags.items,
                              quality_tags |-> content.quality_tags.items,
                              confidence_score |-> confidence]]

\* One request to one model tier, given what the service answers.
callOpenRouterAPI(resp) ==
    IF resp.kind = "http_error" THEN Failure("transport", "OpenRouter API error")
    ELSE IF resp.kind = "no_choices" THEN Failure("transport", "OpenRouter API returned no choices")
    ELSE parseClassificationResponse(resp)

\* The catch of classifyPhotoWithFallback: which failures of the primary
\* call lead to the secondary call.
FallsBack_TransportOnly(out) == ~out.ok /\ out.kind = "transport"
FallsBack_Never(out) == FALSE
FallsBack(out) == ~out.ok

\* parseClassificationResponse has not been applied
Unparsed == [ok |-> FALSE, kind |-> "unparsed", error |-> NULL]

\* ------------------------------------------------------------------ state
VARIABLES
    overlap,      \* whether an invocation may start while another is running
    storeFaults,  \* store statements that can still fail
    logFaults,    \* inserts into classification_logs that can still fail
    now,          \* Date.now(), in minutes
    photos,       \* photos: the photo_ids of the table
    data_json,    \* photos.data_json: "ok", "unparseable" or "no_raw_path"
    rows,         \* photo_classifications: photo_id -> row or NoRow
    tags,         \* tags: tag_name -> row or NoTag
    photo_tags,   \* photo_tags: set of <<photo_id, tag_name>>
    fts,          \* photo_classifications_fts: photo_id -> its entries' all_tags
    pc,           \* per invocation: where it is
    batch,        \* per invocation: photos returned by getUnclassifiedPhotos
    idx,          \* per invocation: position of the for loop in photos
    result,       \* per invocation: the validated result being saved
    modelUsed,    \* per invocation: tier that produced result
    tagIdx,       \* per invocation: position of the tag loops of saveClassification
    err,          \* per invocation: message of the error caught for the photo
    calls,        \* per invocation: external calls of the current attempt
    logs,         \* per invocation: logger calls of the current attempt
    stats,        \* per invocation: ClassificationStats
    outcome,      \* per invocation: how the last invocation ended
    tagsBefore,   \* per invocation: the tags table when its attempt inserted the row
    request,      \* the query of the request to /test-classify, NoRequest for the cron
    reply,        \* the content given to parseClassificationResponse on its own
    parsed        \* what parseClassificationResponse made of reply

store == <<rows, tags, photo_tags, fts>>
locals == <<pc, batch, idx, result, modelUsed, tagIdx, err, calls, logs, stats, outcome, tagsBefore>>
pure == <<reply, parsed>>
vars == <<overlap, storeFaults, logFaults, now, photos, data_json, rows, tags, photo_tags, fts, pc, batch, idx, result, modelUsed,
          tagIdx, err, calls, logs, stats, outcome, tagsBefore, request, reply, parsed>>

\* What the tags table was when an attempt began: recorded for an attempt
\* whose markPhotoAsProcessing inserted the row, until the attempt ends.
NotFirst == [first |-> FALSE, tags |-> [t \in TagNames |-> NoTag]]

First(t) == [first |-> TRUE, tags |-> t]

\* The answers explored: the answer with the capital spelling is explored
\* for the request to /test-classify only, which keeps the state space of
\* the cron within reach.
Responses == IF request = NoRequest THEN CronResponses ELSE CronResponses \cup {RespCapital}

DataJsonValues == {"ok", "unparseable", "no_raw_path"}

ZeroStats == [processed |-> 0, successful |-> 0, failed |-> 0, skipped |-> 0]

\* a row left by attempts that all failed in the external call, the last of
\* them the claim that made retry_count n
FailedRow(n) ==
    [all_tags_searchable |-> << >>, classification_status |-> "failed",
     confidence_score |-> Null, retry_count |-> n, last_attempt_ts |-> 0,
     completed_ts |-> Null, error_message |-> "OpenRouter API error"]

\* the store before the invocations: photos never attempted, and photos whose
\* attempts so far have failed
InitRows == {NoRow, FailedRow(MAX_RETRIES - 1)}

\* What is explored: invocations that overlap in any way over one photo
\* while the store works; one invocation over all the photos, of any
\* data_json; and invocations one after the other over one photo; the last
\* two with store statements and log inserts that fail.
Scenarios ==
    {[photos |-> {1}, runs |-> Runs, overlap |-> TRUE, data |-> {"ok"},
      storeFaults |-> 0, logFaults |-> 0],
     [photos |-> Photos, runs |-> {1}, overlap |-> FALSE, data |-> DataJsonValues,
      storeFaults |-> MaxStoreFaults, logFaults |-> MaxLogFaults],
     [photos |-> {1}, runs |-> Runs, overlap |-> FALSE, data |-> {"ok"},
      storeFaults |-> MaxStoreFaults, logFaults |-> MaxLogFaults]}

InitStore ==
    /\ now = 0
    /\ rows \in [Photos -> InitRows]
    /\ \A p \in Photos \ photos : rows[p] = NoRow
    /\ tags = [t \in TagNames |-> NoTag]
    /\ photo_tags = {}
    /\ fts = [p \in Photos |-> IF rows[p] = NoRow THEN << >> ELSE <<rows[p].all_tags_searchable>>]

InitRuns(invoked) ==
    /\ pc = [r \in Runs |-> IF r \in invoked THEN "start" ELSE "off"]
    /\ batch = [r \in Runs |-> << >>]
    /\ idx = [r \in Runs |-> 0]
    /\ result = [r \in Runs |-> NoResult]
    /\ modelUsed = [r \in Runs |-> NULL]
    /\ tagIdx = [r \in Runs |-> 0]
    /\ err = [r \in Runs |-> NULL]
    /\ calls = [r \in Runs |-> << >>]
    /\ logs = [r \in Runs |-> << >>]
    /\ stats = [r \in Runs |-> ZeroStats]
    /\ outcome = [r \in Runs |-> "none"]
    /\ tagsBefore = [r \in Runs |-> NotFirst]

Init ==
    /\ \E sc \in Scenarios :
         /\ photos = sc.photos
         /\ overlap = sc.overlap
         /\ storeFaults = sc.storeFaults
         /\ logFaults = sc.logFaults
         /\ data_json \in [Photos -> sc.data]
         /\ InitRuns(sc.runs)
    /\ InitStore
    /\ request = NoRequest
    /\ reply = RespA
    /\ parsed = Unparsed

\* ------------------------------------------------------------------ store
HasRow(p) == rows[p] # NoRow

Eligible_IgnoresWindow(p, t) ==
    \/ ~HasRow(p)
    \/ HasRow(p) /\ rows[p].classification_status = "failed" /\ rows[p].retry_count < MAX_RETRIES
    \/ HasRow(p) /\ rows[p].classification_status = "processing"

\* a WHERE clause without a condition on the status
Eligible_AlsoCompleted(p, t) ==
    \/ ~HasRow(p)
    \/ HasRow(p) /\ rows[p].retry_count < MAX_RETRIES

\* WHERE clause of getUnclassifiedPhotos, evaluated at Date.now() = t
Eligible(p, t) ==
    \/ ~HasRow(p)
    \/ /\ HasRow(p)
       /\ rows[p].classification_status = "failed"
       /\ rows[p].retry_count < MAX_RETRIES
    \/ /\ HasRow(p)
       /\ rows[p].classification_status = "processing"
       /\ rows[p].last_attempt_ts < t - FIVE_MINUTES

\* ORDER BY p.created_ts DESC
PhotosNewestFirst == [i \in 1 .. NumPhotos |-> NumPhotos + 1 - i]

IsEligibleNow(p) == p \in photos /\ Eligible(p, now)

Prefix(s, n) == SubSeq(s, 1, IF Len(s) < n THEN Len(s) ELSE n)

getUnclassifiedPhotos(limit) == Prefix(SelectSeq(PhotosNewestFirst, IsEligibleNow), limit)

\* triggers photo_classifications_fts_insert / _update / _delete
FtsAfterInsert(f, p, text) == [f EXCEPT ![p] = Append(@, text)]
FtsAfterUpdate_NoDelete(f, p, text) == [f EXCEPT ![p] = Append(@, text)]
FtsAfterUpdate(f, p, text) == [f EXCEPT ![p] = <<text>>]
FtsAfterDelete(f, p) == [f EXCEPT ![p] = << >>]

\* the upsert without the increment of retry_count on conflict
markPhotoAsProcessing_NoIncrement(p) ==
    IF ~HasRow(p)
      THEN [all_tags_searchable |-> << >>, classification_status |-> "processing",
            confidence_score |-> Null, retry_count |-> 0, last_attempt_ts |-> now,
            completed_ts |-> Null, error_message |-> NULL]
      ELSE [rows[p] EXCEPT !.classification_status = "processing",
                           !.last_attempt_ts = now]

\* the row that the upsert of markPhotoAsProcessing leaves for the photo
markPhotoAsProcessing(p) ==
    IF ~HasRow(p)
      THEN [all_tags_searchable |-> << >>, classification_status |-> "processing",
            confidence_score |-> Null, retry_count |-> 0, last_attempt_ts |-> now,
            completed_ts |-> Null, error_message |-> NULL]
      ELSE [rows[p] EXCEPT !.classification_status = "processing",
                           !.last_attempt_ts = now,
                           !.retry_count = @ + 1]

allTags(c) == c.content_tags \o c.people_tags \o c.mood_tags \o c.color_tags \o c.quality_tags

WithCategory(s, cat) == [i \in 1 .. Len(s) |-> [tagName |-> s[i], category |-> cat]]

\* the (tag, category) pairs in the order of the two nested loops
tagCategories(c) ==
    WithCategory(c.content_tags, "content") \o WithCategory(c.people_tags, "people")
    \o WithCategory(c.mood_tags, "mood") \o WithCategory(c.color_tags, "color")
    \o WithCategory(c.quality_tags, "quality")

\* the upsert of a tag without the increment on conflict
UpsertTag_NoIncrement(t, name, category) ==
    IF t[name] = NoTag
      THEN [t EXCEPT ![name] = [tag_category |-> category, usage_count |-> 1]]
      ELSE t

\* INSERT INTO tags ... ON CONFLICT(tag_name) DO UPDATE SET usage_count = usage_count + 1
UpsertTag(t, name, category) ==
    IF t[name] = NoTag
      THEN [t EXCEPT ![name] = [tag_category |-> category, usage_count |-> 1]]
      ELSE [t EXCEPT ![name].usage_count = @ + 1]

\* ----------------------------------------------------------------- logger
\* the row of logSuccess without the tier that produced the result
LogEvent_NoModel(type, photo, model) ==
    [event_type |-> type, photo_id |-> photo, model_used |-> NULL, stored |-> TRUE]

\* A call of logAttempt, warn, logSuccess or error; stored tells whether its
\* row reached classification_logs.
LogEvent(type, photo, model) ==
    [event_type |-> type, photo_id |-> photo, model_used |-> model, stored |-> TRUE]

\* The logger calls of the current attempt, and the failures of the INSERT
\* that are still to come.
LogState(r) == [log |-> logs[r], left |-> logFaults, threw |-> FALSE]

\* the INSERT of saveToDatabase is rejected and nothing catches it
saveToDatabase_Rethrows(o, ev) ==
    {[o EXCEPT !.log = Append(@, ev)]}
    \cup (IF o.left > 0
            THEN {[log |-> Append(o.log, [ev EXCEPT !.stored = FALSE]), left |-> o.left - 1,
                   threw |-> TRUE]}
            ELSE {})

\* saveToDatabase: the row is inserted, or the INSERT fails and the catch
\* swallows the failure; threw tells whether the call rejects
saveToDatabase(o, ev) ==
    {[o EXCEPT !.log = Append(@, ev)]}
    \cup (IF o.left > 0
            THEN {[log |-> Append(o.log, [ev EXCEPT !.stored = FALSE]), left |-> o.left - 1,
                   threw |-> FALSE]}
            ELSE {})

\* the rejection of a logger call has been caught
Caught(o) == [o EXCEPT !.threw = FALSE]

Logged(r, o) ==
    /\ logs' = [logs EXCEPT ![r] = o.log]
    /\ logFaults' = o.left

\* ------------------------------------------------------------------ clock
Tick ==
    /\ now + TickMinutes <= MaxTime
    /\ now' = now + TickMinutes
    /\ UNCHANGED <<pure, request, overlap, storeFaults, logFaults, photos, data_json, store, locals>>

\* a store statement fails
StoreFails ==
    /\ storeFaults > 0
    /\ storeFaults' = storeFaults - 1

\* ----------------------------------------------------------- orchestrator
Photo(r) == batch[r][idx[r]]

\* what a step of r does to the record of the tags table before its attempt
RecordTags(r) ==
    tagsBefore' = [tagsBefore EXCEPT ![r] =
                     IF pc[r] = "claim" /\ pc'[r] = "callFree" /\ rows[Photo(r)] = NoRow
                       THEN First(tags)
                     ELSE IF pc'[r] \in {"callFree", "callPaid", "waiting", "saveUpdate",
                                         "saveDelete", "saveTag"}
                       THEN @
                       ELSE NotFirst]

\* a catch that swallows what classifySinglePhoto threw and goes on to the
\* external call
CatchInLoop_GoesOn(r, message, o, st) ==
    /\ stats' = [stats EXCEPT ![r] = st]
    /\ Logged(r, Caught(o))
    /\ err' = [err EXCEPT ![r] = message]
    /\ pc' = [pc EXCEPT ![r] = "callFree"]
    /\ UNCHANGED outcome

\* a catch that counts the failure and writes no error row
CatchInLoop_Silent(r, message, o, st) ==
    /\ stats' = [stats EXCEPT ![r] = [st EXCEPT !.failed = @ + 1]]
    /\ Logged(r, Caught(o))
    /\ err' = [err EXCEPT ![r] = message]
    /\ pc' = [pc EXCEPT ![r] = "saveError"]
    /\ UNCHANGED outcome

\* classifySinglePhoto threw: the catch of the for loop up to its last await
CatchInLoop(r, message, o, st) ==
    /\ stats' = [stats EXCEPT ![r] = [st EXCEPT !.failed = @ + 1]]
    /\ \E o2 \in saveToDatabase(Caught(o), LogEvent("error", Photo(r), NULL)) :
         IF o2.threw
           THEN \* logger.error rejects: the outer catch logs and rethrows
                /\ \E o3 \in saveToDatabase(Caught(o2), LogEvent("error", 0, NULL)) :
                      Logged(r, o3)
                /\ err' = [err EXCEPT ![r] = NULL]
                /\ pc' = [pc EXCEPT ![r] = "done"]
                /\ outcome' = [outcome EXCEPT ![r] = "threw"]
           ELSE /\ Logged(r, o2)
                /\ err' = [err EXCEPT ![r] = message]
                /\ pc' = [pc EXCEPT ![r] = "saveError"]
                /\ UNCHANGED outcome

\* a loop that takes the same photo again
NextPhoto_Again(r) ==
    /\ pc' = [pc EXCEPT ![r] = "claim"]
    /\ UNCHANGED <<idx, outcome>>

\* the for loop moves on, or classifyPhotos returns stats
NextPhoto(r) ==
    IF idx[r] < Len(batch[r])
      THEN /\ idx' = [idx EXCEPT ![r] = @ + 1]
           /\ pc' = [pc EXCEPT ![r] = "claim"]
           /\ UNCHANGED outcome
      ELSE /\ pc' = [pc EXCEPT ![r] = "done"]
           /\ outcome' = [outcome EXCEPT ![r] = "returned"]
           /\ UNCHANGED idx

\* the limit classifyPhotos is invoked with: any for the cron, 1 for
\* handleTestClassify
Limits == IF request = NoRequest THEN 1 .. MaxLimit ELSE {1}

\* classifyPhotos(env, limit) is invoked: getUnclassifiedPhotos
Running(r) == pc[r] \notin {"off", "start", "done"}

Select(r) ==
    /\ pc[r] = "start"
    /\ overlap \/ \A q \in Runs : ~Running(q)
    /\ UNCHANGED <<pure, request, overlap, now, photos, data_json, store, result, modelUsed, tagIdx, err, calls, stats>>
    /\ \/ \E limit \in Limits :
            LET selected == getUnclassifiedPhotos(limit) IN
            /\ batch' = [batch EXCEPT ![r] = selected]
            /\ UNCHANGED <<storeFaults, logFaults, logs>>
            /\ IF Len(selected) = 0
                 THEN /\ outcome' = [outcome EXCEPT ![r] = "returned"]
                      /\ pc' = [pc EXCEPT ![r] = "done"]
                      /\ UNCHANGED idx
                 ELSE /\ pc' = [pc EXCEPT ![r] = "claim"]
                      /\ idx' = [idx EXCEPT ![r] = 1]
                      /\ UNCHANGED outcome
       \/ \* the query fails: the outer catch logs and rethrows
          /\ StoreFails
          /\ \E o \in saveToDatabase(LogState(r), LogEvent("error", 0, NULL)) : Logged(r, o)
          /\ outcome' = [outcome EXCEPT ![r] = "threw"]
          /\ pc' = [pc EXCEPT ![r] = "done"]
          /\ UNCHANGED <<batch, idx>>
    /\ RecordTags(r)

\* a photo counted twice
Processed_Twice(r) == [stats[r] EXCEPT !.processed = @ + 2]

Processed(r) == [stats[r] EXCEPT !.processed = @ + 1]

NewAttempt == [log |-> << >>, left |-> logFaults, threw |-> FALSE]

\* a check of the photo data that only parses it
DataError_ParseOnly(d) ==
    IF d = "unparseable" THEN "Failed to parse photo data_json" ELSE NULL

\* JSON.parse(photo.data_json) and the test of raw_path: the message of the
\* error thrown, NULL when the data is usable
DataError(d) ==
    IF d = "unparseable" THEN "Failed to parse photo data_json"
    ELSE IF d = "no_raw_path" THEN "Photo data missing raw_path"
    ELSE NULL

\* stats.processed++, then classifySinglePhoto up to the external call
Claim(r) ==
    /\ pc[r] = "claim"
    /\ UNCHANGED <<pure, request, overlap, now, photos, data_json, tags, photo_tags, batch, idx, result, modelUsed, tagIdx, calls>>
    /\ \/ \* markPhotoAsProcessing, logAttempt, JSON.parse, raw_path
          /\ rows' = [rows EXCEPT ![Photo(r)] = markPhotoAsProcessing(Photo(r))]
          /\ fts' = IF HasRow(Photo(r))
                      THEN FtsAfterUpdate(fts, Photo(r), rows'[Photo(r)].all_tags_searchable)
                      ELSE FtsAfterInsert(fts, Photo(r), rows'[Photo(r)].all_tags_searchable)
          /\ UNCHANGED storeFaults
          /\ \E o \in saveToDatabase(NewAttempt, LogEvent("attempt", Photo(r), NULL)) :
               IF o.threw
                 THEN CatchInLoop(r, "log error", o, Processed(r))
               ELSE IF DataError(data_json[Photo(r)]) # NULL
                 THEN CatchInLoop(r, DataError(data_json[Photo(r)]), o, Processed(r))
               ELSE /\ Logged(r, o)
                    /\ stats' = [stats EXCEPT ![r] = Processed(r)]
                    /\ pc' = [pc EXCEPT ![r] = "callFree"]
                    /\ UNCHANGED <<err, outcome>>
       \/ \* the upsert fails
          /\ StoreFails
          /\ UNCHANGED <<rows, fts>>
          /\ CatchInLoop(r, "store error", NewAttempt, Processed(r))
    /\ RecordTags(r)

Call(model, photo, out) ==
    [model |-> model, photo |-> photo, outcome |-> IF out.ok THEN "ok" ELSE out.kind]

\* The service never answers: fetch is given no signal and no timeout, so
\* its promise never settles and the invocation waits in the await for good.
NeverAnswers(r, model) ==
    /\ calls' = [calls EXCEPT ![r] =
                   Append(@, [model |-> model, photo |-> Photo(r), outcome |-> "no_answer"])]
    /\ pc' = [pc EXCEPT ![r] = "waiting"]
    /\ UNCHANGED <<result, modelUsed, logFaults, logs, stats, err, outcome>>

\* classifyPhotoWithFallback: the call to the free model, and its catch
CallFree(r) ==
    /\ pc[r] = "callFree"
    /\ UNCHANGED <<pure, request, overlap, storeFaults, now, photos, data_json, store, batch, idx, tagIdx>>
    /\ \/ NeverAnswers(r, FREE_MODEL)
       \/ \E resp \in Responses :
            LET out == callOpenRouterAPI(resp) IN
            /\ calls' = [calls EXCEPT ![r] = Append(@, Call(FREE_MODEL, Photo(r), out))]
            /\ IF out.ok
                 THEN /\ result' = [result EXCEPT ![r] = out.result]
                      /\ modelUsed' = [modelUsed EXCEPT ![r] = "free"]
                      /\ pc' = [pc EXCEPT ![r] = "saveUpdate"]
                      /\ UNCHANGED <<logFaults, logs, stats, err, outcome>>
               ELSE IF FallsBack(out)
                 THEN /\ \E o \in saveToDatabase(LogState(r), LogEvent("model_fallback", Photo(r), NULL)) :
                             IF o.threw
                               THEN CatchInLoop(r, "log error", o, stats[r])
                               ELSE /\ Logged(r, o)
                                    /\ pc' = [pc EXCEPT ![r] = "callPaid"]
                                    /\ UNCHANGED <<stats, err, outcome>>
                      /\ UNCHANGED <<result, modelUsed>>
               ELSE /\ CatchInLoop(r, out.error, LogState(r), stats[r])
                    /\ UNCHANGED <<result, modelUsed>>
    /\ RecordTags(r)

\* classifyPhotoWithFallback: the call to the paid model
CallPaid(r) ==
    /\ pc[r] = "callPaid"
    /\ UNCHANGED <<pure, request, overlap, storeFaults, now, photos, data_json, store, batch, idx, tagIdx>>
    /\ \/ NeverAnswers(r, PAID_MODEL)
       \/ \E resp \in Responses :
            LET out == callOpenRouterAPI(resp) IN
            /\ calls' = [calls EXCEPT ![r] = Append(@, Call(PAID_MODEL, Photo(r), out))]
            /\ IF out.ok
                 THEN /\ result' = [result EXCEPT ![r] = out.result]
                      /\ modelUsed' = [modelUsed EXCEPT ![r] = "paid"]
                      /\ pc' = [pc EXCEPT ![r] = "saveUpdate"]
                      /\ UNCHANGED <<logFaults, logs, stats, err, outcome>>
                 ELSE /\ CatchInLoop(r, out.error, LogState(r), stats[r])
                      /\ UNCHANGED <<result, modelUsed>>
    /\ RecordTags(r)

\* a statement of saveClassification fails: classifySinglePhoto throws
SaveThrows(r) ==
    /\ StoreFails
    /\ CatchInLoop(r, "store error", LogState(r), stats[r])
    /\ result' = [result EXCEPT ![r] = NoResult]
    /\ modelUsed' = [modelUsed EXCEPT ![r] = NULL]
    /\ tagIdx' = [tagIdx EXCEPT ![r] = 0]
    /\ calls' = [calls EXCEPT ![r] = << >>]
    /\ UNCHANGED <<batch, idx>>

\* saveClassification returned: logSuccess, stats.successful++, next photo
SaveReturns(r) ==
    /\ \E o \in saveToDatabase(LogState(r), LogEvent("success", Photo(r), modelUsed[r])) :
           IF o.threw
             THEN CatchInLoop(r, "log error", o, stats[r]) /\ UNCHANGED idx
             ELSE /\ Logged(r, o)
                  /\ stats' = [stats EXCEPT ![r].successful = @ + 1]
                  /\ NextPhoto(r)
                  /\ UNCHANGED err
    /\ result' = [result EXCEPT ![r] = NoResult]
    /\ modelUsed' = [modelUsed EXCEPT ![r] = NULL]
    /\ tagIdx' = [tagIdx EXCEPT ![r] = 0]
    /\ UNCHANGED <<batch, calls>>

\* saveClassification, statement 2: UPDATE photo_classifications
SaveUpdate(r) ==
    /\ pc[r] = "saveUpdate"
    /\ UNCHANGED <<pure, request, overlap, now, photos, data_json>>
    /\ \/ /\ rows' = [rows EXCEPT ![Photo(r)] =
                        IF HasRow(Photo(r))
                          THEN [@ EXCEPT !.all_tags_searchable = allTags(result[r]),
                                         !.classification_status = "completed",
                                         !.confidence_score = Some(result[r].confidence_score),
                                         !.completed_ts = Some(now)]
                          ELSE @]
          /\ fts' = IF HasRow(Photo(r))
                      THEN FtsAfterUpdate(fts, Photo(r), allTags(result[r]))
                      ELSE fts
          /\ pc' = [pc EXCEPT ![r] = "saveDelete"]
          /\ calls' = [calls EXCEPT ![r] = << >>]
          /\ UNCHANGED <<storeFaults, logFaults, tags, photo_tags, batch, idx, result, modelUsed,
                         tagIdx, err, logs, stats, outcome>>
       \/ SaveThrows(r) /\ UNCHANGED store
    /\ RecordTags(r)

\* saveClassification, statement 3: DELETE FROM photo_tags
SaveDelete(r) ==
    /\ pc[r] = "saveDelete"
    /\ UNCHANGED <<pure, request, overlap, now, photos, data_json>>
    /\ \/ /\ photo_tags' = {pt \in photo_tags : pt[1] # Photo(r)}
          /\ tagIdx' = [tagIdx EXCEPT ![r] = 1]
          /\ pc' = [pc EXCEPT ![r] = "saveTag"]
          /\ UNCHANGED <<storeFaults, logFaults, rows, tags, fts, batch, idx, result, modelUsed,
                         err, calls, logs, stats, outcome>>
       \/ SaveThrows(r) /\ UNCHANGED store
    /\ RecordTags(r)

CurrentTag(r) == tagCategories(result[r])[tagIdx[r]]

\* saveClassification, one pass of the loop body: the upsert of the tag, then
\* SELECT tag_id and INSERT OR IGNORE INTO photo_tags.  Both are taken in one
\* step: the second touches photo_tags only and commutes with the statements
\* of other invocations that the first commutes with.
SaveTag(r) ==
    /\ pc[r] = "saveTag"
    /\ UNCHANGED <<pure, request, overlap, now, photos, data_json>>
    /\ \/ /\ tags' = UpsertTag(tags, CurrentTag(r).tagName, CurrentTag(r).category)
          /\ photo_tags' = photo_tags \cup {<<Photo(r), CurrentTag(r).tagName>>}
          /\ UNCHANGED <<storeFaults, rows, fts>>
          /\ IF tagIdx[r] < Len(tagCategories(result[r]))
               THEN /\ tagIdx' = [tagIdx EXCEPT ![r] = @ + 1]
                    /\ UNCHANGED <<logFaults, pc, batch, idx, result, modelUsed, err,
                                   calls, logs, stats, outcome>>
               ELSE SaveReturns(r)
       \/ \* the upsert succeeds, SELECT or INSERT OR IGNORE fails
          /\ tags' = UpsertTag(tags, CurrentTag(r).tagName, CurrentTag(r).category)
          /\ SaveThrows(r)
          /\ UNCHANGED <<rows, photo_tags, fts>>
       \/ SaveThrows(r) /\ UNCHANGED store
    /\ RecordTags(r)

\* the UPDATE of saveClassificationError that also empties all_tags_searchable
saveClassificationError_ClearsText(p, message) ==
    IF HasRow(p)
      THEN [rows[p] EXCEPT !.classification_status = "failed",
                           !.error_message = message,
                           !.all_tags_searchable = << >>]
      ELSE rows[p]

\* an UPDATE that sets the status and leaves error_message as it was
saveClassificationError_NoMessage(p, message) ==
    IF HasRow(p)
      THEN [rows[p] EXCEPT !.classification_status = "failed"]
      ELSE rows[p]

\* UPDATE photo_classifications SET classification_status = 'failed',
\* error_message = ? WHERE photo_id = ?: the new row of p
saveClassificationError(p, message) ==
    IF HasRow(p)
      THEN [rows[p] EXCEPT !.classification_status = "failed",
                           !.error_message = message]
      ELSE rows[p]

\* the catch of the for loop: saveClassificationError
SaveError(r) ==
    /\ pc[r] = "saveError"
    /\ UNCHANGED <<pure, request, overlap, now, photos, data_json, tags, photo_tags, batch, result, modelUsed, tagIdx,
                   stats>>
    /\ err' = [err EXCEPT ![r] = NULL]
    /\ calls' = [calls EXCEPT ![r] = << >>]
    /\ \/ /\ rows' = [rows EXCEPT ![Photo(r)] = saveClassificationError(Photo(r), err[r])]
          /\ fts' = IF HasRow(Photo(r))
                      THEN FtsAfterUpdate(fts, Photo(r), rows'[Photo(r)].all_tags_searchable)
                      ELSE fts
          /\ NextPhoto(r)
          /\ UNCHANGED <<storeFaults, logFaults, logs>>
       \/ \* the UPDATE fails: the outer catch logs and rethrows
          /\ StoreFails
          /\ \E o \in saveToDatabase(LogState(r), LogEvent("error", 0, NULL)) : Logged(r, o)
          /\ pc' = [pc EXCEPT ![r] = "done"]
          /\ outcome' = [outcome EXCEPT ![r] = "threw"]
          /\ UNCHANGED <<rows, fts, idx>>
    /\ RecordTags(r)

Next ==
    \/ Tick
    \/ \E r \in Runs : Select(r)
    \/ \E r \in Runs : Claim(r)
    \/ \E r \in Runs : CallFree(r)
    \/ \E r \in Runs : CallPaid(r)
    \/ \E r \in Runs : SaveUpdate(r)
    \/ \E r \in Runs : SaveDelete(r)
    \/ \E r \in Runs : SaveTag(r)
    \/ \E r \in Runs : SaveError(r)

Spec == Init /\ [][Next]_vars

\* ------------------------------------- parseClassificationResponse alone
\* The function applied to each content of Contents, no invocation running.
ParseInit ==
    /\ photos = {}
    /\ overlap = FALSE
    /\ storeFaults = 0
    /\ logFaults = 0
    /\ data_json = [p \in Photos |-> "ok"]
    /\ InitRuns({})
    /\ InitStore
    /\ request = NoRequest
    /\ reply \in Contents
    /\ parsed = Unparsed

Parse ==
    /\ parsed = Unparsed
    /\ parsed' = parseClassificationResponse(reply)
    /\ UNCHANGED <<reply, request, overlap, storeFaults, logFaults, now, photos, data_json, store, locals>>

ParseNext == Parse

ParseSpec == ParseInit /\ [][ParseNext]_vars

\* ------------------------------------------- the cron, minute after minute
\* a row left in processing by an invocation that was ended during its attempt
StuckRow ==
    [all_tags_searchable |-> << >>, classification_status |-> "processing",
     confidence_score |-> Null, retry_count |-> 0, last_attempt_ts |-> 0,
     completed_ts |-> Null, error_message |-> NULL]

\* The cron over a fixed set of photos with a store whose statements go
\* through: photos never attempted, failed, or left in processing.
LiveInit ==
    /\ request = NoRequest
    /\ photos = Photos
    /\ overlap = FALSE
    /\ storeFaults = 0
    /\ logFaults = 0
    /\ data_json \in [Photos -> DataJsonValues]
    /\ InitRuns({1})
    /\ now = 0
    /\ rows \in [Photos -> InitRows \cup {StuckRow}]
    /\ tags = [t \in TagNames |-> NoTag]
    /\ photo_tags = {}
    /\ fts = [p \in Photos |-> IF rows[p] = NoRow THEN << >> ELSE <<rows[p].all_tags_searchable>>]
    /\ reply = RespA
    /\ parsed = Unparsed

\* the cron fires again: scheduled invokes classifyPhotos anew
Again(r) ==
    /\ pc[r] = "done"
    /\ pc' = [pc EXCEPT ![r] = "start"]
    /\ batch' = [batch EXCEPT ![r] = << >>]
    /\ idx' = [idx EXCEPT ![r] = 0]
    /\ logs' = [logs EXCEPT ![r] = << >>]
    /\ stats' = [stats EXCEPT ![r] = ZeroStats]
    /\ outcome' = [outcome EXCEPT ![r] = "none"]
    /\ UNCHANGED <<pure, request, overlap, storeFaults, logFaults, now, photos, data_json, store,
                   result, modelUsed, tagIdx, err, calls, tagsBefore>>

\* the service answers every request
Answered == \A r \in Runs : pc'[r] # "waiting"

LiveNext ==
    \/ Tick
    \/ \E r \in Runs : Again(r)
    \/ \E r \in Runs : Select(r)
    \/ \E r \in Runs : Claim(r)
    \/ \E r \in Runs : CallFree(r) /\ Answered
    \/ \E r \in Runs : CallPaid(r) /\ Answered
    \/ \E r \in Runs : SaveUpdate(r)
    \/ \E r \in Runs : SaveDelete(r)
    \/ \E r \in Runs : SaveTag(r)
    \/ \E r \in Runs : SaveError(r)

\* Time passes, the cron keeps firing, and an invocation goes on when the
\* statement it awaits has settled.
LiveSpec ==
    /\ LiveInit
    /\ [][LiveNext]_vars
    /\ WF_vars(Tick)
    /\ WF_vars(LiveNext)

\* ------------------------------------------------ the /test-classify view
\* a row left by a classification that was saved: the result of RespA
CompletedRow ==
    [all_tags_searchable |-> allTags(callOpenRouterAPI(RespA).result),
     classification_status |-> "completed",
     confidence_score |-> Some(callOpenRouterAPI(RespA).result.confidence_score),
     retry_count |-> 0, last_attempt_ts |-> 0, completed_ts |-> Some(0),
     error_message |-> NULL]

TestRows == {NoRow, FailedRow(MAX_RETRIES - 1), CompletedRow}

\* the photos of the table that have been classified
CompletedPhotos == {p \in Photos : rows[p] = CompletedRow}

\* The store when the request arrives: photos never attempted, photos that
\* failed and photos already classified, with the tags, associations and
\* index entries that their classification wrote.
TestInitStore ==
    /\ now = 0
    /\ photos \in {Photos, {NumPhotos}}
    /\ data_json \in [Photos -> {"ok", "unparseable"}]
    /\ rows \in [Photos -> TestRows]
    /\ \A p \in Photos \ photos : rows[p] = NoRow
    /\ tags = [t \in TagNames |->
                 IF CompletedPhotos # {}
                    /\ \E e \in Elems(tagCategories(callOpenRouterAPI(RespA).result)) : e.tagName = t
                   THEN [tag_category |->
                           (CHOOSE e \in Elems(tagCategories(callOpenRouterAPI(RespA).result)) :
                              e.tagName = t).category,
                         usage_count |-> Cardinality(CompletedPhotos)]
                   ELSE NoTag]
    /\ photo_tags = {<<p, t>> : p \in CompletedPhotos, t \in Elems(CompletedRow.all_tags_searchable)}
    /\ fts = [p \in Photos |-> IF rows[p] = NoRow THEN << >> ELSE <<rows[p].all_tags_searchable>>]

\* one request GET /test-classify?photo_id=X[&force=1], handled by invocation 1
TestInit ==
    /\ request \in [photo_id : Photos, force : BOOLEAN]
    /\ overlap = FALSE
    /\ storeFaults = 0
    /\ logFaults = 0
    /\ TestInitStore
    /\ InitRuns({})
    /\ reply = RespA
    /\ parsed = Unparsed

\* shouldClassify of handleTestClassify
shouldClassify(x) ==
    \/ request.force
    \/ ~HasRow(x)
    \/ rows[x].classification_status = "failed"
    \/ rows[x].classification_status = "pending"

\* UPDATE photo_classifications SET classification_status = 'pending',
\* retry_count = 0, error_message = NULL WHERE photo_id = ?
ResetForForce(x) ==
    [rows[x] EXCEPT !.classification_status = "pending",
                    !.retry_count = 0,
                    !.error_message = NULL]

\* handleTestClassify up to its call of classifyPhotos(env, 1)
Handle(r) ==
    /\ pc[r] = "off"
    /\ r = 1
    /\ request # NoRequest
    /\ UNCHANGED <<pure, request, overlap, storeFaults, logFaults, now, photos, data_json, tags,
                   photo_tags, batch, idx, result, modelUsed, tagIdx, err, calls, logs, stats,
                   tagsBefore>>
    /\ LET x == request.photo_id IN
       IF x \notin photos
         THEN \* getPhotoById returns null: 404
              /\ pc' = [pc EXCEPT ![r] = "responded"]
              /\ outcome' = [outcome EXCEPT ![r] = "not_found"]
              /\ UNCHANGED <<rows, fts>>
       ELSE IF data_json[x] = "unparseable"
         THEN \* getPhotoById throws: 500
              /\ pc' = [pc EXCEPT ![r] = "responded"]
              /\ outcome' = [outcome EXCEPT ![r] = "error"]
              /\ UNCHANGED <<rows, fts>>
       ELSE IF ~shouldClassify(x)
         THEN \* the page shows the classification there is
              /\ pc' = [pc EXCEPT ![r] = "responded"]
              /\ outcome' = [outcome EXCEPT ![r] = "html"]
              /\ UNCHANGED <<rows, fts>>
         ELSE /\ IF request.force /\ HasRow(x)
                   THEN /\ rows' = [rows EXCEPT ![x] = ResetForForce(x)]
                        /\ fts' = FtsAfterUpdate(fts, x, rows[x].all_tags_searchable)
                   ELSE UNCHANGED <<rows, fts>>
              /\ pc' = [pc EXCEPT ![r] = "start"]
              /\ UNCHANGED outcome

\* handleTestClassify after classifyPhotos: getPhotoClassification and the page
Respond(r) ==
    /\ pc[r] = "done"
    /\ request # NoRequest
    /\ UNCHANGED <<pure, request, overlap, storeFaults, logFaults, now, photos, data_json, store,
                   batch, idx, result, modelUsed, tagIdx, err, calls, logs, stats, tagsBefore>>
    /\ pc' = [pc EXCEPT ![r] = "responded"]
    /\ outcome' = [outcome EXCEPT ![r] =
                     IF outcome[r] = "threw" \/ ~HasRow(request.photo_id)
                       THEN "error"
                       ELSE "html"]

TestNext ==
    \/ \E r \in Runs : Handle(r)
    \/ \E r \in Runs : Select(r)
    \/ \E r \in Runs : Claim(r)
    \/ \E r \in Runs : CallFree(r)
    \/ \E r \in Runs : CallPaid(r)
    \/ \E r \in Runs : SaveUpdate(r)
    \/ \E r \in Runs : SaveDelete(r)
    \/ \E r \in Runs : SaveTag(r)
    \/ \E r \in Runs : SaveError(r)
    \/ \E r \in Runs : Respond(r)

TestSpec == TestInit /\ [][TestNext]_vars

\* ------------------------------------------------------------ properties
Status(p) == rows[p].classification_status

\* the invocation has claimed photo p and has not finished its attempt on it
Holds(q, p) ==
    /\ pc[q] \in {"callFree", "callPaid", "waiting", "saveUpdate", "saveDelete", "saveTag",
                 "saveError"}
    /\ Photo(q) = p

\* the invocation passes from its claim to the external call
IssuesCall(r) == pc[r] = "claim" /\ pc'[r] = "callFree"

\* C1 (claim atomicity): once an invocation has claimed a photo, no other
\* invocation goes on to the external call for that photo unless the photo
\* was eligible again (its claim had gone stale) when the other one claimed it.
C1_ClaimAtomicity ==
    [][\A r \in Runs : \A q \in Runs \ {r} :
         (IssuesCall(r) /\ Holds(q, Photo(r))) => Eligible(Photo(r), now)]_vars

\* C2 (batch isolation): an invocation that got its batch returns statistics
\* in which every photo of the batch is counted, as successful or as failed;
\* it throws only when the selection itself failed.
C2_BatchIsolation ==
    \A r \in Runs :
      pc[r] = "done" =>
        \/ /\ outcome[r] = "threw"
           /\ stats[r].processed = 0
        \/ /\ outcome[r] = "returned"
           /\ stats[r].processed = Len(batch[r])
           /\ stats[r].successful + stats[r].failed = stats[r].processed

\* the photos an invocation gets from getUnclassifiedPhotos in this step
SelectedNow(r) ==
    IF pc[r] = "start" /\ pc'[r] = "claim"
      THEN {batch'[r][i] : i \in 1 .. Len(batch'[r])}
      ELSE {}

\* the step claims photo p: only markPhotoAsProcessing sets last_attempt_ts
\* and retry_count
ClaimedNow(p) ==
    \/ ~HasRow(p) /\ rows'[p] # NoRow
    \/ HasRow(p) /\ rows'[p].retry_count # rows[p].retry_count

\* C3 (retry cap): a photo whose retry_count is 3 or more is neither selected
\* nor claimed again, be its status failed or processing.
C3_RetryCap ==
    [][\A p \in Photos :
         (HasRow(p) /\ rows[p].retry_count >= MAX_RETRIES) =>
            /\ ~ClaimedNow(p)
            /\ \A r \in Runs : p \notin SelectedNow(r)]_vars

\* the logger calls of the current attempt that report a fallback
FallbackEvents(r) == SelectSeq(logs[r], LAMBDA e : e.event_type = "model_fallback")

\* the primary call of the current attempt ended in a validation error
PrimaryInvalid(r) == Len(calls[r]) >= 1 /\ calls[r][1].outcome = "validation"

C5_FallbackProtocol ==
    \A r \in Runs :
      /\ Len(calls[r]) <= 2
      /\ Len(calls[r]) >= 1 =>
           /\ calls[r][1].model = FREE_MODEL
           /\ calls[r][1].photo = Photo(r)
           /\ calls[r][1].outcome = "ok" =>
                /\ Len(calls[r]) = 1
                /\ Len(FallbackEvents(r)) = 0
                /\ pc[r] = "saveUpdate" /\ modelUsed[r] = "free"
           /\ calls[r][1].outcome = "transport" =>
                /\ Len(FallbackEvents(r)) = 1
                /\ \/ Len(calls[r]) = 1 /\ pc[r] = "callPaid"
                   \/ Len(calls[r]) = 2
      /\ Len(calls[r]) = 2 =>
           /\ calls[r][2].model = PAID_MODEL
           /\ calls[r][2].model # calls[r][1].model
           /\ calls[r][2].photo = calls[r][1].photo
           /\ calls[r][1].outcome # "ok"
           /\ IF calls[r][2].outcome = "ok"
                THEN pc[r] = "saveUpdate" /\ modelUsed[r] = "paid"
                ELSE IF calls[r][2].outcome = "no_answer"
                  THEN pc[r] = "waiting"
                ELSE pc[r] = "saveError" /\ err[r] \notin {NULL, "store error"}

C5_Witness ==
    \E r \in Runs :
      /\ Len(calls[r]) = 2
      /\ calls[r][1].outcome = "transport"
      /\ calls[r][2].outcome \notin {"ok", "no_answer"}
      /\ pc[r] = "saveError"

\* the tags associated with photo p through photo_tags
TagsOf(p) == {pt[2] : pt \in {x \in photo_tags : x[1] = p}}

\* the photo_tags rows that reference tag t
RowsOf(t) == {pt \in photo_tags : pt[2] = t}

\* C6 (tag-count invariant): in every reachable state the usage_count of
\* every tag equals the number of photo_tags rows that reference it.
C6_TagCount ==
    \A t \in TagNames : tags[t].usage_count = Cardinality(RowsOf(t))

CategoryIndex(cat) == CHOOSE i \in 1 .. Len(Categories) : Categories[i] = cat

\* text is a join, in category order, of exactly the tags of the set assoc
IsJoinOf(text, assoc) ==
    /\ {text[i] : i \in 1 .. Len(text)} = assoc
    /\ Len(text) = Cardinality(assoc)
    /\ \A i, j \in 1 .. Len(text) :
         i < j => CategoryIndex(tags[text[i]].tag_category)
                    <= CategoryIndex(tags[text[j]].tag_category)

\* C7: in every reachable state the all_tags_searchable of a row is the
\* space-join, in category order, of exactly the tags associated with the
\* photo through photo_tags.
C7_SearchableText ==
    \A p \in Photos : HasRow(p) => IsJoinOf(rows[p].all_tags_searchable, TagsOf(p))

\* fullTextSearch: the completed photos whose entry of the index has the token
Search(tag) ==
    {p \in Photos : /\ \E i \in 1 .. Len(fts[p]) : Includes(fts[p][i], tag)
                    /\ Status(p) = "completed"}

SaveCompletes(r) == pc[r] = "saveTag" /\ pc'[r] \in {"claim", "done"}

\* C9 (idempotent rewrite): when saveClassification completes for a photo,
\* also one that had associations from an earlier classification, the tags
\* associated with the photo are exactly the tags of the result saved.
C9_IdempotentRewrite ==
    [][\A r \in Runs :
         SaveCompletes(r) =>
           {pt[2] : pt \in {x \in photo_tags' : x[1] = Photo(r)}}
             = {allTags(result[r])[i] : i \in 1 .. Len(allTags(result[r]))}]_vars

\* the row of p is stale at Date.now()
Stale(p) == rows[p].last_attempt_ts < now - FIVE_MINUTES

\* C10 (status state machine): the status of a row changes only along
\* absent -> processing, processing -> completed, processing -> failed,
\* failed -> processing while retry_count < 3, and a processing row is claimed
\* again only when stale; the status of a completed row never changes.
C10_StatusMachine ==
    [][\A p \in Photos :
         LET a == Status(p)
             b == rows'[p].classification_status
         IN /\ a # b =>
                 \/ a = "absent" /\ b = "processing"
                 \/ a = "processing" /\ b \in {"completed", "failed"}
                 \/ a = "failed" /\ b = "processing" /\ rows[p].retry_count < MAX_RETRIES
            /\ (a = "processing" /\ b = "processing" /\ ClaimedNow(p)) => Stale(p)]_vars

\* ------------------------------- properties of parseClassificationResponse
\* reply is JSON whose people_tags is an array; its members
PeopleOf(c) == IF c.json /\ c.people_tags.array THEN Elems(c.people_tags.items) ELSE {}

WasParsed == parsed # Unparsed

\* C11 (validation completeness): a response whose people list has neither
\* people nor no_people, or has people but neither close nor distant, is
\* rejected, whatever its confidence and its other categories are.
C11_ValidationCompleteness ==
    (/\ WasParsed
     /\ \/ PeopleOf(reply) \cap {"people", "no_people"} = {}
        \/ "people" \in PeopleOf(reply) /\ PeopleOf(reply) \cap {"close", "distant"} = {})
    => ~parsed.ok

C11_Witness ==
    /\ WasParsed
    /\ reply.json
    /\ reply.people_tags = List(<<"people">>)
    /\ reply.confidence = Number(10)
    /\ Len(reply.content_tags.items) = 2 /\ Len(reply.mood_tags.items) = 1
    /\ Len(reply.color_tags.items) = 2 /\ Len(reply.quality_tags.items) = 2
    /\ ~parsed.ok
    /\ parsed.kind = "validation"

\* C12 (people rule exclusivity): an accepted response has exactly one of
\* people / no_people in its people list and, with people, exactly one of
\* close / distant.
C12_PeopleExclusive ==
    (WasParsed /\ parsed.ok) =>
      /\ Cardinality(PeopleOf(reply) \cap {"people", "no_people"}) = 1
      /\ "people" \in PeopleOf(reply) =>
           Cardinality(PeopleOf(reply) \cap {"close", "distant"}) = 1

\* the tag fields of a result, in category order
Fields(c) == <<c.content_tags, c.people_tags, c.mood_tags, c.color_tags, c.quality_tags>>

\* C13 (minimum cardinalities): an accepted result has its five lists as
\* they are in the response, with at least 2 content, 1 mood, 2 color and 2
\* quality tags; a response with a list that is absent or too short is
\* rejected; the people list needs no more than the presence rule.
C13_MinimumCardinalities ==
    WasParsed =>
      IF parsed.ok
        THEN /\ reply.json
             /\ \A i \in 1 .. 5 : Fields(reply)[i].array
             /\ \A i \in 1 .. 5 : Fields(parsed.result)[i] = Fields(reply)[i].items
             /\ Len(parsed.result.content_tags) >= 2
             /\ Len(parsed.result.mood_tags) >= 1
             /\ Len(parsed.result.color_tags) >= 2
             /\ Len(parsed.result.quality_tags) >= 2
        ELSE \/ ~reply.json
             \/ \E i \in 1 .. 5 : ~Fields(reply)[i].array
             \/ Len(reply.content_tags.items) < 2
             \/ Len(reply.mood_tags.items) < 1
             \/ Len(reply.color_tags.items) < 2
             \/ Len(reply.quality_tags.items) < 2
             \/ ~(reply.confidence \in {Number(n) : n \in 0 .. 10}
                  \/ reply.confidence.type # "number")
             \/ PeopleOf(reply) \cap {"people", "no_people"} = {}
             \/ /\ "people" \in PeopleOf(reply)
                /\ PeopleOf(reply) \cap {"close", "distant"} = {}

\* accepted with a people list of one tag
C13_Witness ==
    /\ WasParsed
    /\ parsed.ok
    /\ parsed.result.people_tags = <<"no_people">>
    /\ Len(parsed.result.content_tags) = 2

\* C14 (confidence rule): an accepted response has a confidence that is a
\* number within [0, 1], kept unchanged in the result, or has none, and the
\* result's confidence is then 0; any other confidence causes rejection.
C14_ConfidenceRule ==
    (WasParsed /\ parsed.ok) =>
      \/ /\ reply.confidence.type = "number"
         /\ reply.confidence.value \in 0 .. 10
         /\ parsed.result.confidence_score = reply.confidence.value
      \/ /\ reply.confidence.type = "undefined"
         /\ parsed.result.confidence_score = 0

\* ------------------------------------------------- properties of the runs
\* an insert into classification_logs fails in this step
LogFailsNow == logFaults' < logFaults

StoreFailsNow == storeFaults' < storeFaults

\* the invocation takes this step
Moves(r) == pc'[r] # pc[r]

\* C15 (logging never raises): in a step in which an insert into
\* classification_logs fails, the photo is counted as failed only for another
\* cause (a store statement that fails, a failed secondary call, bad
\* data_json), the invocation throws only when a store statement fails, a
\* save that has written its last statement is counted as successful, and no
\* row gets status failed.
C15_LoggingNeverRaises ==
    [][LogFailsNow =>
         /\ \A r \in Runs :
              Moves(r) =>
                /\ stats'[r].failed > stats[r].failed =>
                     \/ StoreFailsNow
                     \/ pc[r] = "callPaid"
                     \/ pc[r] = "claim" /\ data_json[Photo(r)] # "ok"
                /\ outcome'[r] = "threw" => StoreFailsNow
                /\ (pc[r] = "saveTag" /\ ~StoreFailsNow) =>
                     /\ stats'[r].successful = stats[r].successful + 1
                     /\ pc'[r] \in {"claim", "done"}
         /\ \A p \in Photos :
              rows'[p].classification_status = "failed" => Status(p) = "failed"]_vars

\* a photo counted as successful whose success row was not stored
C15_Witness ==
    \E r \in Runs :
      /\ stats[r].successful >= 1
      /\ \E i \in 1 .. Len(logs[r]) :
           logs[r][i].event_type = "success" /\ ~logs[r][i].stored

\* the claims made on the photo of a row: the INSERT of markPhotoAsProcessing
\* leaves retry_count 0 and each later claim adds 1
Attempts(row) == row.retry_count + 1

\* C16 (attempt limit): with invocations that do not overlap, a photo is
\* claimed at most 3 times in total.
C16_AttemptLimit ==
    [][~overlap =>
         \A p \in Photos : ClaimedNow(p) => Attempts(rows'[p]) <= MAX_ATTEMPTS]_vars

\* photo p is in the table and has no row, a failed row with retry_count < 3,
\* or a processing row whose last attempt is more than 5 minutes old
MaySelect(p) ==
    /\ p \in photos
    /\ \/ rows[p] = NoRow
       \/ rows[p] # NoRow /\ Status(p) = "failed" /\ rows[p].retry_count < 3
       \/ rows[p] # NoRow /\ Status(p) = "processing" /\ now - rows[p].last_attempt_ts > 5

\* C17 (selection rule): for every limit, getUnclassifiedPhotos returns at
\* most limit photos, each without a row, or failed with retry_count < 3, or
\* processing and stale; newest first; and a photo that may be selected is
\* left out only when limit newer ones are returned.
C17_SelectionRule ==
    \A limit \in 1 .. MaxLimit :
      LET s == getUnclassifiedPhotos(limit) IN
      /\ Len(s) <= limit
      /\ \A i \in 1 .. Len(s) : MaySelect(s[i])
      /\ \A i, j \in 1 .. Len(s) : i < j => created_ts(s[i]) > created_ts(s[j])
      /\ \A p \in Photos :
           (MaySelect(p) /\ p \notin Elems(s)) =>
             /\ Len(s) = limit
             /\ \A i \in 1 .. Len(s) : created_ts(s[i]) > created_ts(p)

\* an invocation got the newest photo alone while an older one may be selected
C17_Witness ==
    \E r \in Runs :
      /\ pc[r] = "claim" /\ idx[r] = 1
      /\ batch[r] = <<2>>
      /\ MaySelect(1) /\ MaySelect(2)
      /\ getUnclassifiedPhotos(1) = batch[r]

\* C18 (bounded external call): no invocation stays in an external call that
\* gets no answer; a primary call without answer is treated as a failure of
\* the primary tier: one fallback event and the call to the secondary tier.
C18_BoundedCall ==
    \A r \in Runs :
      /\ pc[r] # "waiting"
      /\ (Len(calls[r]) >= 1 /\ calls[r][1].outcome = "no_answer") =>
           /\ Len(FallbackEvents(r)) = 1
           /\ pc[r] = "callPaid" \/ Len(calls[r]) = 2

\* the rows that the logger calls of the current attempt of r left in
\* classification_logs, and their event types in order
LogRows(l) == SelectSeq(l, LAMBDA e : e.stored)

EventTypes(l) == [i \in 1 .. Len(l) |-> l[i].event_type]

UsageCount(t, name) == IF t[name] = NoTag THEN 0 ELSE t[name].usage_count

PairwiseDistinct(s) == \A i, j \in 1 .. Len(s) : i # j => s[i] # s[j]

\* the tags of a result in category order: content, people, mood, color, quality
InCategoryOrder(c) ==
    c.content_tags \o c.people_tags \o c.mood_tags \o c.color_tags \o c.quality_tags

C23_NoPartialRewrite ==
    \A p \in Photos :
      HasRow(p) => TagsOf(p) = Elems(rows[p].all_tags_searchable)

\* markPhotoAsProcessing went through in this step of r
Claims(r) == pc[r] = "claim" /\ rows'[Photo(r)] # rows[Photo(r)]

\* retry_count of a row, 0 when the photo has no row
RetryCount(row) == IF row = NoRow THEN 0 ELSE row.retry_count

\* C24 (claim effect): every claim sets the status to processing, sets
\* last_attempt_ts to the current time and increments retry_count, the first
\* claim of a photo included: a photo with no row has retry_count 1 after it.
C24_ClaimEffect ==
    [][\A r \in Runs :
         Claims(r) =>
           /\ rows'[Photo(r)].classification_status = "processing"
           /\ rows'[Photo(r)].last_attempt_ts = now
           /\ rows'[Photo(r)].retry_count = RetryCount(rows[Photo(r)]) + 1]_vars

\* C25 (success path state): after saveClassification succeeded the row is
\* completed, with the confidence of the result, completed_ts = now, the new
\* all_tags_searchable and no error_message, also for a photo whose earlier
\* attempt failed.
C25_SuccessPathState ==
    [][\A r \in Runs :
         SaveCompletes(r) /\ ~overlap =>
           /\ rows'[Photo(r)].classification_status = "completed"
           /\ rows'[Photo(r)].confidence_score = Some(result[r].confidence_score)
           /\ rows'[Photo(r)].all_tags_searchable = allTags(result[r])
           /\ rows'[Photo(r)].completed_ts # Null
           /\ rows'[Photo(r)].error_message = NULL]_vars

\* saveClassificationError returned to the catch of classifyPhotos in this
\* step of r
ErrorSaved(r) ==
    /\ pc[r] = "saveError"
    /\ pc'[r] = "claim" \/ (pc'[r] = "done" /\ outcome'[r] = "returned")

\* the columns of a row that saveClassificationError does not name
Untouched(row) ==
    IF row = NoRow
      THEN <<NoRow>>
      ELSE <<row.all_tags_searchable, row.retry_count, row.last_attempt_ts,
             row.confidence_score, row.completed_ts>>

\* C26 (failure path frame): saveClassificationError changes only the status
\* (to failed) and the error_message of the photo's row; the photo's
\* photo_tags rows, all_tags_searchable, retry_count, last_attempt_ts, every
\* tag's usage_count and the rows of every other photo stay as they were.
C26_FailurePathFrame ==
    [][\A r \in Runs :
         ErrorSaved(r) =>
           /\ HasRow(Photo(r)) =>
                /\ rows'[Photo(r)].classification_status = "failed"
                /\ rows'[Photo(r)].error_message = err[r]
           /\ Untouched(rows'[Photo(r)]) = Untouched(rows[Photo(r)])
           /\ \A q \in Photos \ {Photo(r)} : rows'[q] = rows[q]
           /\ photo_tags' = photo_tags
           /\ tags' = tags]_vars

\* saveClassificationError has marked as failed a photo whose save had
\* already written its row and some of its associations
C26_Witness ==
    \E p \in Photos :
      /\ Status(p) = "failed"
      /\ rows[p].error_message = "store error"
      /\ rows[p].all_tags_searchable # << >>
      /\ TagsOf(p) # {}

\* C27 (confidence only when completed): in every reachable state a row that
\* carries a confidence_score is completed; rows that are processing or
\* failed, re-claimed rows and rows of a save that failed half way included,
\* carry none.
C27_ConfidenceOnlyCompleted ==
    \A p \in Photos :
      (HasRow(p) /\ rows[p].confidence_score # Null) => Status(p) = "completed"

\* r sends a request to the external service in this step
CallsOut(r) == Len(calls'[r]) > Len(calls[r])

\* r passes from one statement of classifyPhotos to the next in this step
Steps(r) == pc'[r] # pc[r]

\* markPhotoAsProcessing and logAttempt have gone through for the photo r is at
Claimed(r) ==
    /\ HasRow(Photo(r))
    /\ logs[r] # << >>
    /\ logs[r][1].event_type = "attempt"
    /\ logs[r][1].photo_id = Photo(r)

\* C28 (step ordering per photo): an invocation calls the external service
\* for a photo only after its claim of the photo went through; it writes a
\* result (saveClassification or saveClassificationError) only when no call
\* is pending, saveClassification after a call that returned a valid result;
\* and when the claim itself fails it makes no call for the photo.
C28_StepOrdering ==
    [][\A r \in Runs :
         /\ CallsOut(r) => pc[r] \in {"callFree", "callPaid"} /\ Claimed(r)
         /\ (pc[r] = "saveUpdate" /\ Steps(r)) =>
              /\ calls[r] # << >>
              /\ calls[r][Len(calls[r])].outcome = "ok"
              /\ result[r] # NoResult
         /\ (pc[r] = "saveError" /\ Steps(r)) =>
              \A i \in 1 .. Len(calls[r]) : calls[r][i].outcome \notin {"ok", "no_answer"}
         /\ (pc[r] = "claim" /\ Steps(r) /\ rows'[Photo(r)] = rows[Photo(r)]) =>
              /\ pc'[r] \in {"saveError", "done"}
              /\ calls'[r] = << >>]_vars

\* the claim of a photo without a row has failed and the invocation is in
\* the catch without having called the service
C28_Witness ==
    \E r \in Runs :
      /\ pc[r] = "saveError"
      /\ err[r] = "store error"
      /\ ~HasRow(Photo(r))
      /\ calls[r] = << >>

AtPhoto(r) ==
    pc[r] \in {"claim", "callFree", "callPaid", "waiting", "saveUpdate", "saveDelete",
               "saveTag", "saveError"}

\* C21 (single-photo test endpoint): when /test-classify is requested with
\* photo_id = X and a classification is due, the photo that the request
\* selects, claims, sends to the service and saves is X and no other photo,
\* also when force = 1 is given for an X that is completed.
C21_TestClassifiesRequested ==
    \A r \in Runs :
      /\ AtPhoto(r) => Photo(r) = request.photo_id
      /\ (request # NoRequest /\ pc[r] = "done" /\ outcome[r] = "returned") =>
           batch[r] = <<request.photo_id>>

\* C30 (pending equals absent): a photo whose row has status pending, as
\* after the reset that handleTestClassify makes for force = 1, is selected
\* by getUnclassifiedPhotos like a photo that has no row.
C30_PendingIsEligible ==
    \A p \in photos :
      (HasRow(p) /\ Status(p) = "pending") => Eligible(p, now)

\* ------------------------------------------------- properties of the cron
\* p is completed, or failed for good
Settled(p) ==
    /\ HasRow(p)
    /\ \/ Status(p) = "completed"
       \/ Status(p) = "failed" /\ rows[p].retry_count >= MAX_RETRIES

\* C22 (eventual completion): with a fixed set of photos, a store whose
\* statements go through and a service that answers every request, the
\* invocations of the cron, one after the other, reach a state from which on
\* every photo is completed or failed with retry_count >= 3 and the selection
\* returns nothing.
C22_EventualCompletion ==
    <>[](/\ \A p \in photos : Settled(p)
         /\ getUnclassifiedPhotos(MaxLimit) = << >>)

\* all photos are settled, one of them failed for good, and an invocation
\* has returned because the selection was empty
C22_Witness ==
    /\ \A p \in photos : Settled(p)
    /\ \E p \in photos : Status(p) = "failed"
    /\ \E p \in photos : Status(p) = "completed"
    /\ \E r \in Runs : pc[r] = "done" /\ batch[r] = << >> /\ outcome[r] = "returned"

\* ------------------------------------------------ properties of tag names
\* the normalized form of a tag name: lowercase, words joined by underscores
Normalize(t) == IF t = "Nature" THEN "nature" ELSE t

\* C31 (tag normalization): every tag name that has a row in tags, and every
\* token of all_tags_searchable, is in normalized form, so that spellings
\* that differ only in case share one row of tags.
C31_TagsNormalized ==
    /\ \A t \in TagNames : tags[t] # NoTag => Normalize(t) = t
    /\ \A p \in Photos :
         HasRow(p) => \A t \in Elems(rows[p].all_tags_searchable) : Normalize(t) = t

\* -------------------------------------------------- properties of a batch
\* classifyPhotos returns its statistics in this step of r
Returns(r) == pc[r] # "done" /\ pc'[r] = "done" /\ outcome'[r] = "returned"

Finished(p) ==
    /\ HasRow(p)
    /\ Status(p) = "completed"
    /\ \A r \in Runs : ~Holds(r, p)

\* C33 (sequential terminality): when invocations do not overlap and no
\* statement of the store fails, a photo that is completed is not selected,
\* claimed or sent to the service by any later invocation, and its row (status,
\* searchable text, confidence), its text in the search index and its tags
\* do not change again.
C33_SequentialTerminality ==
    [][\A p \in photos :
         Finished(p) =>
           /\ rows'[p] = rows[p]
           /\ fts'[p] = fts[p]
           /\ {x \in photo_tags' : x[1] = p} = {x \in photo_tags : x[1] = p}
           /\ \A r \in Runs :
                /\ p \notin SelectedNow(r)
                /\ ~ClaimedNow(p)
                /\ CallsOut(r) => Photo(r) # p]_vars

\* a photo was completed by an earlier invocation, and a later invocation
\* whose selection does not hold it is calling the service for another photo
C33_Witness ==
    \E p \in photos : \E r \in Runs :
      /\ Finished(p)
      /\ pc[r] = "callFree"
      /\ p \notin Elems(batch[r])
      /\ Photo(r) # p

\* ------------------------------------------ properties of the photo data
\* the data_json of the photo cannot be parsed or has no raw_path
Unusable(p) == data_json[p] \in {"unparseable", "no_raw_path"}

\* the messages of the errors that classifySinglePhoto throws for such data
DataMessage(p) ==
    IF data_json[p] = "unparseable"
      THEN "Failed to parse photo data_json"
      ELSE "Photo data missing raw_path"

EndsAttempt(r) == pc[r] \in {"saveTag", "saveError"} /\ pc'[r] \in {"claim", "done"}

\* the event types of the rows that the logger calls l left for photo p
RowsFor(l, p) == EventTypes(SelectSeq(LogRows(l), LAMBDA e : e.photo_id = p))

\* attempt, then at most one model_fallback, then one of success and error
AttemptSequences ==
    {<<"attempt", "success">>, <<"attempt", "model_fallback", "success">>,
     <<"attempt", "error">>, <<"attempt", "model_fallback", "error">>}

IsPrefix(s, t) == Len(s) <= Len(t) /\ \A i \in 1 .. Len(s) : t[i] = s[i]

\* the log rows of an attempt whose log writes all succeeded, as the attempt
\* ends: for every photo that the invocation processed
C35_LogSequenceOfProcessed ==
    [][\A r \in Runs :
         (EndsAttempt(r) /\ LogRows(logs'[r]) = logs'[r]) =>
           RowsFor(logs'[r], Photo(r)) \in AttemptSequences]_vars

\* C35 (log sequence per attempt): when the log writes succeed, every photo
\* whose claim (markPhotoAsProcessing) went through gets, by the end of its
\* attempt, classification_logs rows in this order: exactly one attempt row,
\* then at most one model_fallback row, then exactly one row that is success
\* or error; the rows are only ever appended, and the success row is written
\* in the step in which saveClassification completes. A photo whose claim
\* was rejected by the store gets an error row and no attempt row.
C35_LogSequence ==
    [][\A r \in Runs :
         /\ (pc[r] = "claim" /\ Steps(r) /\ LogRows(logs'[r]) = logs'[r]) =>
              IF storeFaults' = storeFaults
                THEN logs'[r][1] = LogEvent("attempt", Photo(r), NULL)
                ELSE RowsFor(logs'[r], Photo(r)) = <<"error">>
         /\ (AtPhoto(r) /\ pc[r] # "claim") => IsPrefix(logs[r], logs'[r])
         /\ (/\ EndsAttempt(r)
             /\ LogRows(logs'[r]) = logs'[r]
             /\ logs'[r][1].event_type = "attempt") =>
              RowsFor(logs'[r], Photo(r)) \in AttemptSequences
         /\ (\E i \in 1 .. Len(logs'[r]) : logs'[r][i].event_type = "success") =>
              \/ SaveCompletes(r)
              \/ logs'[r] = logs[r]]_vars

\* an attempt has ended with the rows attempt, model_fallback, error: both
\* models failed
C35_Witness ==
    \E r \in Runs :
      /\ pc[r] \in {"claim", "done"}
      /\ idx[r] >= 1
      /\ LogRows(logs[r]) = logs[r]
      /\ EventTypes(logs[r]) = <<"attempt", "model_fallback", "error">>
      /\ Status(logs[r][1].photo_id) = "failed"

\* ------------------------------------------------ properties of the read
\* getPhotoClassification over the tables pt (photo_tags) and tg (tags): the
\* tag names joined to photo p, grouped by the tag_category of their tags row
getPhotoClassification(pt, tg, p) ==
    [cat \in Elems(Categories) |->
       {x[2] : x \in {y \in pt : /\ y[1] = p
                                 /\ tg[y[2]] # NoTag
                                 /\ tg[y[2]].tag_category = cat}}]

\* the tag names that the result c holds in category cat
TagsIn(c, cat) ==
    {e.tagName : e \in {x \in Elems(tagCategories(c)) : x.category = cat}}

\* C36 (read-back round trip): for every valid result and every prior state
\* of the tags table, when saveClassification has completed for a photo,
\* getPhotoClassification returns for each of the five categories exactly
\* the tag names that the result holds in that category.
C36_ReadBackRoundTrip ==
    [][\A r \in Runs :
         (SaveCompletes(r) /\ ~overlap) =>
           \A cat \in Elems(Categories) :
             getPhotoClassification(photo_tags', tags', Photo(r))[cat] = TagsIn(result[r], cat)]_vars

\* ------------------------------------------ properties of the row fields
\* the least number of tags of a valid result: 2 content, 1 people, 1 mood,
\* 2 color, 2 quality
MIN_TAGS == MIN_CONTENT + 1 + MIN_MOOD + MIN_COLOR + MIN_QUALITY

\* C37 (status field consistency): in every reachable state a row with
\* status failed has an error_message, and a row with status completed has a
\* confidence_score within [0, 1] (0 .. 10 tenths), a completed_ts and an
\* all_tags_searchable of at least 8 tags.
C37_StatusFieldConsistency ==
    \A p \in Photos :
      /\ (HasRow(p) /\ Status(p) = "failed") => rows[p].error_message # NULL
      /\ (HasRow(p) /\ Status(p) = "completed") =>
           /\ rows[p].confidence_score # Null
           /\ rows[p].confidence_score[1] \in 0 .. 10
           /\ rows[p].completed_ts # Null
           /\ Len(rows[p].all_tags_searchable) >= MIN_TAGS

\* one photo is completed with the eight tags of its result and another has
\* failed on its data
C37_Witness ==
    \E p, q \in Photos :
      /\ Status(p) = "completed"
      /\ Len(rows[p].all_tags_searchable) = MIN_TAGS
      /\ rows[p].confidence_score = Some(7)
      /\ Status(q) = "failed"
      /\ rows[q].error_message = "Failed to parse photo data_json"

====
